---- MODULE Spec2Model ----
(***************************************************************************)
(* State-machine model of the teaching programs of go-complete-resource:   *)
(* the "Go Bank" command-line variants (02-go-essentials,                  *)
(* 03-working-with-packages) and the note / todo programs                  *)
(* (05-structs-custom-types, 06-interfaces).                               *)
(*                                                                         *)
(* float64 values are modelled exactly on the sub-lattice of multiples of  *)
(* 0.5 (all of which are exactly representable, and on which + and - are   *)
(* exact), plus NaN, +Inf and -Inf.  Strings are sequences of one-character*)
(* strings, so that formatting and parsing are real conversions.           *)
(***************************************************************************)
EXTENDS Integers, Sequences, FiniteSets, TLC

VARIABLES
    variant,         \* which bank program is running
    pc,              \* position of main: "start", "menu", "done"
    accountBalance,  \* the variable accountBalance of main
    file,            \* balance.txt: [exists, text]
    loadErr,         \* the err returned by the loader ("nil" or its message)
    out,             \* what the last step printed
    run,             \* number of the current run of the program
    txns,            \* accepted transactions so far, over all runs
    lastOp,          \* the last request: [op, amount, accepted, before, fileBefore, wrote]
    lastWrite,       \* outcome of the run's latest os.WriteFile: "none", "ok", "failed"
    prevEnd,         \* how the previous run ended: [any, fresh, balance]
    stdin,           \* values still to be read from standard input by fmt.Scan
    iteration,       \* the loop counter i of part_006
    nvariant,        \* which note program is running
    npc,             \* position of the note program's main
    title,           \* note program: the variable title of main
    content,         \* note program: the variable content of main
    todoText,        \* note program: the variable todoText of main
    userNote,        \* note program: the variable userNote of main
    todo,            \* note program: the variable todo of main
    noteErr,         \* note program: the variable err of main
    stamped,         \* what time.Now() returned inside note.New (0: not called)
    disk,            \* the directory: file name -> what was written to it
    nout,            \* note program: what the last step printed
    upc,             \* position of the user program's main
    userFirstName,   \* user program: the variable userFirstName of main
    userLastName,    \* user program: the variable userLastName of main
    userBirthdate,   \* user program: the variable userBirthdate of main
    appUser,         \* user program: what the pointer appUser refers to
    userErr,         \* user program: the variable err of main
    uout,            \* user program: what the last step printed
    cpc,             \* position of the profit calculator's main
    revenue,         \* profit calculator: the variable revenue of main
    expenses,        \* profit calculator: the variable expenses of main
    taxRate,         \* profit calculator: the variable taxRate of main
    calcErr,         \* profit calculator: the variable err of main
    cout,            \* profit calculator: what the last step printed
    entered,         \* profit calculator: the values fmt.Scan has read so far
    results          \* results.txt: [exists, text]

bankVars == <<variant, pc, accountBalance, file, loadErr, out, run, txns, lastOp, lastWrite, prevEnd,
              stdin, iteration>>
noteVars == <<nvariant, npc, title, content, todoText, userNote, todo, noteErr, stamped, disk, nout>>
userVars == <<upc, userFirstName, userLastName, userBirthdate, appUser, userErr, uout>>
calcVars == <<cpc, revenue, expenses, taxRate, calcErr, cout, entered, results>>
vars == <<bankVars, noteVars, userVars, calcVars>>

----------------------------------------------------------------------------
(* Bounds of the exploration.                                              *)

\* accepted deposits / withdrawals explored, over all runs
MaxTxns == 2
\* runs of the bank program explored one after the other
MaxRuns == 2
\* longest title / content line explored in the note program
MaxLen == 2
\* distinct clock readings time.Now() may return
MaxClock == 2
\* longest standard input explored, in values read by fmt.Scan
MaxInput == 4

----------------------------------------------------------------------------
(* float64: Fin(n) is the finite value n/2.                                *)

Fin(n) == [k |-> "fin", v |-> n]
NaN == [k |-> "nan", v |-> 0]
PInf == [k |-> "inf", v |-> 1]
NInf == [k |-> "inf", v |-> -1]
\* the float64 with the whole-number value n
F(n) == Fin(2 * n)

\* Go's a <= b on float64: false as soon as one operand is NaN
FLe(a, b) ==
    /\ a.k # "nan"
    /\ b.k # "nan"
    /\ \/ a = NInf
       \/ b = PInf
       \/ a.k = "fin" /\ b.k = "fin" /\ a.v <= b.v

\* Go's a > b on float64: false as soon as one operand is NaN
FGt(a, b) == FLe(b, a) /\ a # b

FNeg(a) == IF a.k = "nan" THEN NaN ELSE [k |-> a.k, v |-> 0 - a.v]

\* Go's a + b on float64 (exact on multiples of 0.5)
FAdd(a, b) ==
    IF a.k = "nan" \/ b.k = "nan" THEN NaN
    ELSE IF a.k = "inf" /\ b.k = "inf" THEN (IF a = b THEN a ELSE NaN)
    ELSE IF a.k = "inf" THEN a
    ELSE IF b.k = "inf" THEN b
    ELSE Fin(a.v + b.v)

\* Go's a - b on float64
FSub(a, b) == FAdd(a, FNeg(b))

IsNegative(a) == FGt(Fin(0), a)

----------------------------------------------------------------------------
(* Strings as sequences of characters.                                     *)

DigitChar == <<"0", "1", "2", "3", "4", "5", "6", "7", "8", "9">>
DigitSet == {DigitChar[i] : i \in 1..10}
DigitVal(c) == (CHOOSE i \in 1..10 : DigitChar[i] = c) - 1

RECURSIVE NatStr(_)
NatStr(n) == IF n < 10 THEN <<DigitChar[n + 1]>>
             ELSE NatStr(n \div 10) \o <<DigitChar[(n % 10) + 1]>>

RECURSIVE DigitsVal(_)
DigitsVal(s) == IF s = <<>> THEN 0
                ELSE 10 * DigitsVal(SubSeq(s, 1, Len(s) - 1)) + DigitVal(s[Len(s)])

RECURSIVE Pow10(_)
Pow10(n) == IF n = 0 THEN 1 ELSE 10 * Pow10(n - 1)

\* how many digits s holds from position i on
RECURSIVE DigitRun(_, _)
DigitRun(s, i) == IF i <= Len(s) /\ s[i] \in DigitSet THEN 1 + DigitRun(s, i + 1) ELSE 0

RECURSIVE StripZeros(_)
StripZeros(s) == IF s # <<>> /\ s[Len(s)] = "0" THEN StripZeros(SubSeq(s, 1, Len(s) - 1)) ELSE s

RECURSIVE StripLeadingZeros(_)
StripLeadingZeros(s) == IF s # <<>> /\ s[1] = "0" THEN StripLeadingZeros(Tail(s)) ELSE s

Upper == <<"A", "B", "E", "I", "N", "F">>
Lower == <<"a", "b", "e", "i", "n", "f">>
\* a byte that is not valid UTF-8, and the character U+FFFD that the standard
\* library puts in its place
InvalidByte == "0xFF"
ReplacementChar == "U+FFFD"
\* unicode.ToLower on the letters of the model's alphabet; strings.ToLower goes
\* through strings.Map, which writes U+FFFD for a byte that is not valid UTF-8
ToLowerChar(c) == IF \E i \in 1..Len(Upper) : Upper[i] = c
                  THEN Lower[CHOOSE i \in 1..Len(Upper) : Upper[i] = c]
                  ELSE IF c = InvalidByte THEN ReplacementChar
                  ELSE c
\* strings.ToLower
ToLower(s) == [i \in 1..Len(s) |-> ToLowerChar(s[i])]
\* strings.ReplaceAll(s, old, new) for one-character old and new
ReplaceAll(s, old, new) == [i \in 1..Len(s) |-> IF s[i] = old THEN new ELSE s[i]]

----------------------------------------------------------------------------
(* fmt.Sprint / fmt.Println of a float64: the verb %v, which is %g with    *)
(* the shortest representation that reads back to the same value; the      *)
(* exponent form is used from 1e+06 on.                                    *)

\* FormatFin with the digits after the decimal point lost
FormatFinWhole(a) == NatStr(a \div 2)

\* the text of the finite value a/2, a >= 0
FormatFin(a) ==
    LET ip == a \div 2
        odd == a % 2 = 1
        ipStr == NatStr(ip)
        digs == StripZeros((IF ip = 0 THEN <<>> ELSE ipStr) \o (IF odd THEN <<"5">> ELSE <<>>))
        exp == (IF ip = 0 THEN 0 ELSE Len(ipStr)) - 1
    IN  IF a = 0 THEN <<"0">>
        ELSE IF exp >= 6
        THEN <<digs[1]>> \o (IF Len(digs) > 1 THEN <<".">> \o Tail(digs) ELSE <<>>)
             \o <<"e", "+">> \o (IF exp < 10 THEN <<"0">> ELSE <<>>) \o NatStr(exp)
        ELSE ipStr \o (IF odd THEN <<".", "5">> ELSE <<>>)

Sprint(x) ==
    IF x = NaN THEN <<"N", "a", "N">>
    ELSE IF x = PInf THEN <<"+", "I", "n", "f">>
    ELSE IF x = NInf THEN <<"-", "I", "n", "f">>
    ELSE IF x.v < 0 THEN <<"-">> \o FormatFin(0 - x.v)
    ELSE FormatFin(x.v)

(* strconv.ParseFloat(s, 64) on the decimal grammar                        *)
(*   [+-] digits [. digits] [(e|E) [+-] digits],  [+-]inf,  nan            *)
(* (hexadecimal floats and digit separators are outside the model).  The   *)
(* result is [val, ok]: a syntax error gives 0, a value beyond the float64 *)
(* range gives +-Inf, both with ok = FALSE.  Values are computed exactly;  *)
(* the texts explored denote multiples of 0.5.                             *)
ParseFloat(s) ==
    LET signed == Len(s) >= 1 /\ s[1] \in {"+", "-"}
        neg == signed /\ s[1] = "-"
        body == IF signed THEN Tail(s) ELSE s
        nInt == DigitRun(body, 1)
        hasDot == nInt + 1 <= Len(body) /\ body[nInt + 1] = "."
        nFrac == IF hasDot THEN DigitRun(body, nInt + 2) ELSE 0
        mEnd == nInt + (IF hasDot THEN 1 + nFrac ELSE 0)
        hasExp == mEnd + 1 <= Len(body) /\ body[mEnd + 1] \in {"e", "E"}
        eSigned == hasExp /\ mEnd + 2 <= Len(body) /\ body[mEnd + 2] \in {"+", "-"}
        eStart == mEnd + 2 + (IF eSigned THEN 1 ELSE 0)
        nExp == IF hasExp THEN DigitRun(body, eStart) ELSE 0
        last == IF hasExp THEN eStart + nExp - 1 ELSE mEnd
        wellFormed == nInt + nFrac >= 1 /\ (hasExp => nExp >= 1) /\ last = Len(body)
        mant == StripLeadingZeros(SubSeq(body, 1, nInt) \o SubSeq(body, nInt + 2, nInt + 1 + nFrac))
        e == IF hasExp
             THEN (IF eSigned /\ body[mEnd + 2] = "-" THEN -1 ELSE 1)
                  * DigitsVal(SubSeq(body, eStart, last))
             ELSE 0
        scale == e - nFrac
        halves == IF scale >= 0 THEN 2 * DigitsVal(mant) * Pow10(scale)
                  ELSE (2 * DigitsVal(mant)) \div Pow10(0 - scale)
    IN  IF ToLower(body) = <<"i", "n", "f">>
        THEN [val |-> IF neg THEN NInf ELSE PInf, ok |-> TRUE]
        ELSE IF ~signed /\ ToLower(body) = <<"n", "a", "n">>
        THEN [val |-> NaN, ok |-> TRUE]
        ELSE IF ~wellFormed
        THEN [val |-> Fin(0), ok |-> FALSE]
        ELSE IF mant # <<>> /\ Len(mant) + scale >= 310
        THEN [val |-> IF neg THEN NInf ELSE PInf, ok |-> FALSE]
        ELSE [val |-> Fin(IF neg THEN 0 - halves ELSE halves), ok |-> TRUE]

----------------------------------------------------------------------------
(* The bank programs.  One variant per program:                            *)
(*   part_005          one menu round, deposit without validation          *)
(*   nested_if         one menu round, validation, return on rejection     *)
(*   part_007          menu loop with switch, balance in memory only       *)
(*   writing_to_files  menu loop, balance.txt written, never read          *)
(*   part_003          menu loop, balance.txt read with the errors ignored *)
(*   part_008          menu loop, balance.txt read with the errors reported*)
(*   third_party       as part_008, through the fileops package            *)
(*   infinite_loop     20-infinite-loop-break-continue: for {} around an   *)
(*                     if/else chain, left by continue, return and break   *)
(*   part_006          for i := 0; i < 200; i++ around the if/else chain   *)

Variants == {"part_005", "nested_if", "part_007", "writing_to_files",
             "part_003", "part_008", "third_party", "infinite_loop", "part_006"}

\* "for i := 0; i < 200; i++"
MaxIterations == 200

\* the program runs its menu in a for loop
Loops(v) == v \notin {"part_005", "nested_if"}
\* the menu is a switch inside "for {}", left only by the return of default
SwitchLoops(v) == v \in {"part_007", "writing_to_files", "part_003", "part_008", "third_party"}
\* the program writes balance.txt after an accepted transaction
Writes(v) == v \in {"writing_to_files", "part_003", "part_008", "third_party"}
\* the program reads balance.txt at startup
Loads(v) == v \in {"part_003", "part_008", "third_party"}
\* the menu choices that are neither check balance, deposit nor withdraw
OtherChoices(v) == IF v = "part_005" THEN {0, 3, 4} ELSE {0, 4}

\* the amounts a user types (a failed Scan leaves 0)
Amounts == {Fin(-501), Fin(0), Fin(501), F(1000), NaN, PInf}

NoFile == [exists |-> FALSE, text |-> <<>>]
TextFile(t) == [exists |-> TRUE, text |-> t]

\* what balance.txt may hold before the first run
InitialFiles ==
    {NoFile} \cup
    {TextFile(t) : t \in {<<"a", "b", "c">>, <<"1", "2", "5", "0", ".", "5">>,
                          <<"9", "9", "9", "5", "0", "0">>, <<"-", "5">>,
                          <<"1", "e", "9", "9", "9">>, <<"N", "a", "N">>}}

InvalidAmount == "Invalid amount. Must be greater than 0."
InsufficientFunds == "Invalid amount. You can't withdraw more than you have."
BalanceUpdated == "Balance updated! New amount:"
Welcome == "Welcome to Go Bank!"

\* getBalanceFromFile of part_008: (balance, error)
getBalanceFromFile(f) ==
    IF ~f.exists THEN [val |-> F(1000), err |-> "Failed to find balance file."]
    ELSE IF ~ParseFloat(f.text).ok
    THEN [val |-> F(1000), err |-> "Failed to parse stored balance value."]
    ELSE [val |-> ParseFloat(f.text).val, err |-> "nil"]

\* getBalanceFromFile of part_003: both errors dropped with the blank identifier
getBalanceFromFileIgnoring(f) ==
    [val |-> ParseFloat(IF f.exists THEN f.text ELSE <<>>).val, err |-> "nil"]

\* fileops.GetFloatFromFile
GetFloatFromFile(f) ==
    IF ~f.exists THEN [val |-> F(1000), err |-> "Failed to find file: balance.txt"]
    ELSE IF ~ParseFloat(f.text).ok
    THEN [val |-> F(1000), err |-> "Failed to parse file content."]
    ELSE [val |-> ParseFloat(f.text).val, err |-> "nil"]

\* LoadBalance with 22-writing-to-files reading balance.txt as part_008 does
LoadBalanceReading(v, f) ==
    CASE v \in {"part_008", "writing_to_files"} -> getBalanceFromFile(f)
      [] v = "third_party" -> GetFloatFromFile(f)
      [] v = "part_003" -> getBalanceFromFileIgnoring(f)
      [] OTHER -> [val |-> F(1000), err |-> "nil"]

\* the balance main starts with, and the error it holds
LoadBalance(v, f) ==
    CASE v = "part_008" -> getBalanceFromFile(f)
      [] v = "third_party" -> GetFloatFromFile(f)
      [] v = "part_003" -> getBalanceFromFileIgnoring(f)
      [] OTHER -> [val |-> F(1000), err |-> "nil"]

\* os.WriteFile(name, text, 0644): the file it leaves and whether it succeeded.
\* It fails either before touching the file, or after truncating it with the
\* text part-written (explored: all of the text but its last character).
WriteFile(f, text) ==
    {[file |-> TextFile(text), ok |-> TRUE],
     [file |-> f, ok |-> FALSE],
     [file |-> TextFile(SubSeq(text, 1, Len(text) - 1)), ok |-> FALSE]}

\* writeBalanceToFile writing the balance formatted without its fraction
writeBalanceToFileWhole(f, balance) ==
    WriteFile(f, IF balance.k = "fin" THEN Sprint(Fin(2 * (balance.v \div 2))) ELSE Sprint(balance))

\* writeBalanceToFile opening balance.txt for appending, without truncating it
writeBalanceToFileAppending(f, balance) == WriteFile(f, f.text \o Sprint(balance))

\* writeBalanceToFile(balance), fileops.WriteFloatToFile(balance, name)
writeBalanceToFile(f, balance) == WriteFile(f, Sprint(balance))

\* DepositRejected testing "< 0" in place of "<= 0"
DepositRejectedBelowZero(v, amount) == v # "part_005" /\ FLe(amount, Fin(0)) /\ amount # Fin(0)

\* "if depositAmount <= 0": the deposit is refused
DepositRejected(v, amount) == v # "part_005" /\ FLe(amount, Fin(0))

\* the two checks of a withdrawal: "if withdrawalAmount <= 0", then
\* "if withdrawalAmount > accountBalance"
WithdrawCheck(amount, balance) ==
    IF FLe(amount, Fin(0)) THEN InvalidAmount
    ELSE IF FGt(amount, balance) THEN InsufficientFunds
    ELSE "ok"

NoOp == [op |-> "none", amount |-> Fin(0), accepted |-> FALSE,
         before |-> Fin(0), fileBefore |-> NoFile]
Request(op, amount, accepted) ==
    [op |-> op, amount |-> amount, accepted |-> accepted,
     before |-> accountBalance, fileBefore |-> file]

\* NextRound with part_006 leaving its loop after the first round
NextRoundEnding(v) == IF Loops(v) /\ v # "part_006" THEN "menu" ELSE "done"

\* where main is after a menu round that did not return
NextRound(v) ==
    IF v = "part_006" THEN (IF iteration + 1 < MaxIterations THEN "menu" ELSE "done")
    ELSE IF Loops(v) THEN "menu" ELSE "done"
\* RejectRound with the switch loops returning after a refused amount
RejectRoundLeaving(v, op) == IF v = "infinite_loop" /\ op = "deposit" THEN "menu" ELSE "done"

\* RejectRound with 20-infinite-loop-break-continue returning after a refused
\* deposit as well
RejectRoundReturning(v, op) == IF SwitchLoops(v) THEN "menu" ELSE "done"

\* where main is after a refused amount: continue in the switch loops, return in
\* the single-round programs and in part_006; 20-infinite-loop-break-continue
\* continues after a refused deposit and returns after a refused withdrawal
RejectRound(v, op) ==
    IF SwitchLoops(v) \/ (v = "infinite_loop" /\ op = "deposit") THEN "menu" ELSE "done"
\* the counter of part_006 after a loop body that ran to its end
PostStatement(v) == IF v = "part_006" THEN iteration + 1 ELSE iteration
\* AfterScan with fmt.Scan consuming nothing
AfterScanUnread(n) == stdin

\* what is left on standard input after n calls of fmt.Scan
AfterScan(n) == IF stdin > n THEN stdin - n ELSE 0
\* what part_005 prints after its if/else chain
Trailer(v, choice) == IF v = "part_005" THEN <<"Your choice:", choice>> ELSE <<>>

BankInit ==
    /\ variant \in Variants
    /\ pc = "start"
    /\ accountBalance = Fin(0)
    /\ file \in (IF Loads(variant) \/ Writes(variant) THEN InitialFiles ELSE {NoFile})
    /\ loadErr = "nil"
    /\ out = <<>>
    /\ run = 1
    /\ txns = 0
    /\ lastOp = NoOp
    /\ lastWrite = "none"
    /\ prevEnd = [any |-> FALSE, fresh |-> FALSE, balance |-> Fin(0)]
    /\ stdin \in 0..MaxInput
    /\ iteration = 0

\* the note programs are not running
NoteIdle ==
    /\ nvariant = "none"
    /\ npc = "off"
    /\ title = <<>>
    /\ content = <<>>
    /\ todoText = <<>>
    /\ userNote = [Title |-> <<>>, Content |-> <<>>, CreatedAt |-> 0]
    /\ todo = [Text |-> <<>>, CreatedAt |-> 0]
    /\ noteErr = "nil"
    /\ stamped = 0
    /\ disk = <<>>
    /\ nout = <<>>

\* the null pointer, as the value of a *User variable
NilUser == [nil |-> TRUE, firstName |-> <<>>, lastName |-> <<>>, birthDate |-> <<>>, createdAt |-> 0]

\* the user program is not running
UserIdle ==
    /\ upc = "off"
    /\ userFirstName = <<>>
    /\ userLastName = <<>>
    /\ userBirthdate = <<>>
    /\ appUser = NilUser
    /\ userErr = "nil"
    /\ uout = <<>>

\* the profit calculator is not running
CalcIdle ==
    /\ cpc = "off"
    /\ revenue = Fin(0)
    /\ expenses = Fin(0)
    /\ taxRate = Fin(0)
    /\ calcErr = "nil"
    /\ cout = <<>>
    /\ entered = <<>>
    /\ results = NoFile

\* main up to the for loop: the balance is declared or loaded, the banner printed
Start ==
    /\ pc = "start"
    /\ accountBalance' = LoadBalance(variant, file).val
    /\ loadErr' = LoadBalance(variant, file).err
    /\ out' = (IF LoadBalance(variant, file).err # "nil"
               THEN <<"ERROR", LoadBalance(variant, file).err, "---------">> ELSE <<>>)
              \o (IF variant = "part_006" THEN <<>> ELSE <<Welcome>>)
              \o (IF variant = "third_party" THEN <<"Reach us 24/7">> ELSE <<>>)
    /\ pc' = "menu"
    /\ UNCHANGED <<variant, file, run, txns, lastOp, lastWrite, prevEnd, stdin, iteration, noteVars, userVars, calcVars>>

\* choice 1
CheckBalance ==
    /\ pc = "menu"
    /\ stdin > 0
    /\ stdin' = AfterScan(1)
    /\ iteration' = PostStatement(variant)
    /\ out' = <<"Your balance is", Sprint(accountBalance)>> \o Trailer(variant, 1)
    /\ lastOp' = Request("check", Fin(0), FALSE)
    /\ pc' = NextRound(variant)
    /\ UNCHANGED <<variant, accountBalance, file, loadErr, run, txns, lastWrite, prevEnd, noteVars, userVars, calcVars>>

\* an accepted transaction: the new balance is stored, printed and, in the
\* variants that persist it, written to balance.txt with the error dropped
Accept(op, amount, balance) ==
    /\ txns < MaxTxns
    /\ accountBalance' = balance
    /\ out' = <<BalanceUpdated, Sprint(balance)>> \o Trailer(variant, IF op = "deposit" THEN 2 ELSE 3)
    /\ lastOp' = Request(op, amount, TRUE)
    /\ txns' = txns + 1
    /\ pc' = NextRound(variant)
    /\ iteration' = PostStatement(variant)
    /\ IF Writes(variant)
       THEN \E w \in writeBalanceToFile(file, balance) :
                /\ file' = w.file
                /\ lastWrite' = IF w.ok THEN "ok" ELSE "failed"
       ELSE UNCHANGED <<file, lastWrite>>
    /\ UNCHANGED <<variant, loadErr, run, prevEnd, noteVars, userVars, calcVars>>

\* a refused transaction: the message, then continue (loop) or return
Reject(op, amount, message) ==
    /\ out' = <<message>>
    /\ lastOp' = Request(op, amount, FALSE)
    /\ pc' = RejectRound(variant, op)
    /\ UNCHANGED <<variant, accountBalance, file, loadErr, run, txns, lastWrite, prevEnd, iteration, noteVars, userVars, calcVars>>

\* choice 2
Deposit(amount) ==
    /\ pc = "menu"
    /\ stdin > 0
    /\ stdin = 1 => amount = Fin(0)
    /\ stdin' = AfterScan(2)
    /\ IF DepositRejected(variant, amount)
       THEN Reject("deposit", amount, InvalidAmount)
       ELSE Accept("deposit", amount, FAdd(accountBalance, amount))

\* choice 3
Withdraw(amount) ==
    /\ pc = "menu"
    /\ variant # "part_005"
    /\ stdin > 0
    /\ stdin = 1 => amount = Fin(0)
    /\ stdin' = AfterScan(2)
    /\ IF WithdrawCheck(amount, accountBalance) # "ok"
       THEN Reject("withdraw", amount, WithdrawCheck(amount, accountBalance))
       ELSE Accept("withdraw", amount, FSub(accountBalance, amount))

\* any other choice: the default branch (the final else of the if chain)
Exit(choice) ==
    /\ pc = "menu"
    /\ stdin = 0 => choice = 0
    /\ stdin' = AfterScan(1)
    /\ out' = IF variant \in {"nested_if", "part_006"} THEN <<"Goodbye!">>
              ELSE IF Loops(variant) THEN <<"Goodbye!", "Thanks for choosing our bank">>
              ELSE Trailer(variant, choice)
    /\ lastOp' = Request("exit", Fin(0), FALSE)
    /\ pc' = IF variant = "part_006" THEN NextRound(variant) ELSE "done"
    /\ iteration' = PostStatement(variant)
    /\ UNCHANGED <<variant, accountBalance, file, loadErr, run, txns, lastWrite, prevEnd, noteVars, userVars, calcVars>>

\* the user starts the program again; balance.txt is what the last run left
Rerun ==
    /\ pc = "done"
    /\ run < MaxRuns
    /\ run' = run + 1
    /\ pc' = "start"
    /\ prevEnd' = [any |-> TRUE, fresh |-> lastWrite = "ok",
                   balance |-> accountBalance]
    /\ accountBalance' = Fin(0)
    /\ loadErr' = "nil"
    /\ out' = <<>>
    /\ lastOp' = NoOp
    /\ lastWrite' = "none"
    /\ stdin' \in 0..MaxInput
    /\ iteration' = 0
    /\ UNCHANGED <<variant, file, txns, noteVars, userVars, calcVars>>

Init == BankInit /\ NoteIdle /\ UserIdle /\ CalcIdle

\* one step of main
BankStep ==
    \/ Start
    \/ CheckBalance
    \/ \E amount \in Amounts : Deposit(amount)
    \/ \E amount \in Amounts : Withdraw(amount)
    \/ \E choice \in OtherChoices(variant) : Exit(choice)

Next ==
    \/ BankStep
    \/ Rerun

Spec == Init /\ [][Next]_vars

----------------------------------------------------------------------------
(* The note programs.  One variant per program:                            *)
(*   fixes        16-fixes: main with note.New, Display, Save              *)
(*   struct_tags  the same main over the note package with JSON tags       *)
(*   interface    06-interfaces: a todo and a note, saved through saveData *)

NoteVariants == {"fixes", "struct_tags", "interface"}

Alphabet == {"A", "b", " ", "/", InvalidByte}
\* the texts of at most n characters
Lines(n) == UNION {[1..m -> Alphabet] : m \in 0..n}
\* how an input line ends: newline, carriage return + newline, end of input
Terminators == {<<"\n">>, <<"\r", "\n">>, <<>>}
\* what ReadString may find on standard input: a text of at most n characters
\* and its end
InputLines(n) == {text \o end : text \in Lines(n), end \in Terminators}
\* the instants time.Now() may return
Clock == 1..MaxClock

TrimSuffix(s, c) == IF s # <<>> /\ s[Len(s)] = c THEN SubSeq(s, 1, Len(s) - 1) ELSE s

\* getUserInput: the line read up to '\n', "" when ReadString fails, else the
\* line without its trailing "\n" and "\r"
getUserInput(raw) ==
    IF raw = <<>> \/ raw[Len(raw)] # "\n" THEN <<>>
    ELSE TrimSuffix(TrimSuffix(raw, "\n"), "\r")

ZeroNote == [Title |-> <<>>, Content |-> <<>>, CreatedAt |-> 0]
ZeroTodo == [Text |-> <<>>, CreatedAt |-> 0]
InvalidInput == "Invalid input."
WriteError == "write error"

\* New leaving the creation time at its zero value
NewUnstamped(t, c, now) ==
    IF t = <<>> \/ c = <<>> THEN [note |-> ZeroNote, err |-> InvalidInput]
    ELSE [note |-> [Title |-> t, Content |-> c, CreatedAt |-> 0], err |-> "nil"]

\* New refusing only when title and content are both empty
NewRequiringOne(t, c, now) ==
    IF t = <<>> /\ c = <<>> THEN [note |-> ZeroNote, err |-> InvalidInput]
    ELSE [note |-> [Title |-> t, Content |-> c, CreatedAt |-> now], err |-> "nil"]

\* note.New(title, content), with now the value of time.Now()
New(t, c, now) ==
    IF t = <<>> \/ c = <<>> THEN [note |-> ZeroNote, err |-> InvalidInput]
    ELSE [note |-> [Title |-> t, Content |-> c, CreatedAt |-> now], err |-> "nil"]

\* todo.New(text), with now the value of time.Now()
TodoNew(text, now) ==
    IF text = <<>> THEN [todo |-> ZeroTodo, err |-> InvalidInput]
    ELSE [todo |-> [Text |-> text, CreatedAt |-> now], err |-> "nil"]

DotJson == <<".", "j", "s", "o", "n">>

\* FileName without the lower-casing
FileNameCased(t) == ReplaceAll(t, " ", "_") \o DotJson

\* the file name Save derives from a title (or a todo's text)
FileName(t) == ToLower(ReplaceAll(t, " ", "_")) \o DotJson

\* json.Marshal of a string: the characters between the quotes, a byte that is
\* not valid UTF-8 written as the escape of U+FFFD
MarshalString(str) == [i \in 1..Len(str) |-> IF str[i] = InvalidByte THEN "\\ufffd" ELSE str[i]]
\* json.Unmarshal into a string: the escapes decoded
UnmarshalString(js) == [i \in 1..Len(js) |-> IF js[i] = "\\ufffd" THEN ReplacementChar ELSE js[i]]
\* time.Time.MarshalJSON and UnmarshalJSON: the instant as text and back
MarshalTime(t) == NatStr(t)
UnmarshalTime(js) == DigitsVal(js)

\* json.Marshal of a Note: the members in field order, keyed by the struct tags
\* where the type declares them
NoteJSON(n, tagged) ==
    << <<IF tagged THEN "title" ELSE "Title", MarshalString(n.Title)>>,
       <<IF tagged THEN "content" ELSE "Content", MarshalString(n.Content)>>,
       <<IF tagged THEN "created_at" ELSE "CreatedAt", MarshalTime(n.CreatedAt)>> >>

\* json.Marshal of a Todo
TodoJSON(t) == << <<"text", MarshalString(t.Text)>>, <<"created_at", MarshalTime(t.CreatedAt)>> >>

\* the keys of a JSON object, in the order written
Keys(data) == [i \in 1..Len(data) |-> data[i][1]]
\* the value json.Unmarshal finds for a field: the member whose key equals the
\* field's JSON name, letter case ignored; none when no key matches
Member(data, key) ==
    IF \E i \in 1..Len(data) : ToLower(<<data[i][1]>>) = <<key>>
    THEN <<data[CHOOSE i \in 1..Len(data) : ToLower(<<data[i][1]>>) = <<key>>][2]>>
    ELSE <<>>
\* json.Unmarshal(data, &note) for the Note type with struct tags
Unmarshal(data) ==
    IF data = <<>> THEN [note |-> ZeroNote, err |-> "unexpected end of JSON input"]
    ELSE [note |-> [Title |-> IF Member(data, "title") = <<>> THEN <<>>
                              ELSE UnmarshalString(Member(data, "title")[1]),
                    Content |-> IF Member(data, "content") = <<>> THEN <<>>
                                ELSE UnmarshalString(Member(data, "content")[1]),
                    CreatedAt |-> IF Member(data, "created_at") = <<>> THEN 0
                                  ELSE UnmarshalTime(Member(data, "created_at")[1])],
          err |-> "nil"]
\* Load(filename) as note.go documents it: os.ReadFile, then json.Unmarshal
Load(d, filename) ==
    IF filename \notin DOMAIN d
    THEN [note |-> ZeroNote, err |-> "open: no such file or directory"]
    ELSE Unmarshal(d[filename])

\* the directory d with data written to name
Written(d, name, data) ==
    [n \in (DOMAIN d) \cup {name} |-> IF n = name THEN data ELSE d[n]]

\* os.WriteFile(name, data, 0644) in directory d: the directory it leaves and
\* the error.  It fails either before touching the file or after truncating it.
WriteNoteFile(d, name, data) ==
    {[disk |-> Written(d, name, data), err |-> "nil"],
     [disk |-> d, err |-> WriteError],
     [disk |-> Written(d, name, <<>>), err |-> WriteError]}

\* Note.Save(): the outcomes of writing the note's JSON under its file name
Save(n, tagged, d) == WriteNoteFile(d, FileName(n.Title), NoteJSON(n, tagged))

\* Todo.Save()
TodoSave(t, d) == WriteNoteFile(d, FileName(t.Text), TodoJSON(t))

BankIdle ==
    /\ variant = "none"
    /\ pc = "off"
    /\ accountBalance = Fin(0)
    /\ file = NoFile
    /\ loadErr = "nil"
    /\ out = <<>>
    /\ run = 0
    /\ txns = 0
    /\ lastOp = NoOp
    /\ lastWrite = "none"
    /\ prevEnd = [any |-> FALSE, fresh |-> FALSE, balance |-> Fin(0)]
    /\ stdin = 0
    /\ iteration = 0

NoteInit ==
    /\ nvariant \in NoteVariants
    /\ npc = "input"
    /\ title = <<>>
    /\ content = <<>>
    /\ todoText = <<>>
    /\ userNote = ZeroNote
    /\ todo = ZeroTodo
    /\ noteErr = "nil"
    /\ stamped = 0
    /\ disk = <<>>
    /\ nout = <<>>

\* getNoteData (and, in the todo program, the third getUserInput)
GetNoteData ==
    /\ npc = "input"
    /\ \E rawTitle \in InputLines(MaxLen) : title' = getUserInput(rawTitle)
    /\ \E rawContent \in InputLines(1) : content' = getUserInput(rawContent)
    /\ \E rawTodo \in InputLines(1) :
          todoText' = IF nvariant = "interface" THEN getUserInput(rawTodo) ELSE <<>>
    /\ npc' = IF nvariant = "interface" THEN "newtodo" ELSE "new"
    /\ nout' = <<"Note title:", "Note content:">>
               \o (IF nvariant = "interface" THEN <<"Todo text: ">> ELSE <<>>)
    /\ UNCHANGED <<nvariant, userNote, todo, noteErr, stamped, disk, bankVars, userVars, calcVars>>

\* NewTodo without the return after the error of todo.New
NewTodoContinuing(now) ==
    /\ npc = "newtodo"
    /\ todo' = TodoNew(todoText, now).todo
    /\ noteErr' = TodoNew(todoText, now).err
    /\ nout' = IF TodoNew(todoText, now).err # "nil" THEN <<InvalidInput>> ELSE <<>>
    /\ npc' = "new"
    /\ UNCHANGED <<nvariant, title, content, todoText, userNote, stamped, disk, bankVars, userVars, calcVars>>

\* todo, err := todo.New(todoText), and the early return on error
NewTodo(now) ==
    /\ npc = "newtodo"
    /\ todo' = TodoNew(todoText, now).todo
    /\ noteErr' = TodoNew(todoText, now).err
    /\ nout' = IF TodoNew(todoText, now).err # "nil" THEN <<InvalidInput>> ELSE <<>>
    /\ npc' = IF TodoNew(todoText, now).err # "nil" THEN "done" ELSE "new"
    /\ UNCHANGED <<nvariant, title, content, todoText, userNote, stamped, disk, bankVars, userVars, calcVars>>

\* userNote, err := note.New(title, content), and the early return on error
NewNote(now) ==
    /\ npc = "new"
    /\ userNote' = New(title, content, now).note
    /\ noteErr' = New(title, content, now).err
    /\ stamped' = IF New(title, content, now).err = "nil" THEN now ELSE 0
    /\ nout' = IF New(title, content, now).err # "nil" THEN <<InvalidInput>> ELSE <<>>
    /\ npc' = IF New(title, content, now).err # "nil" THEN "done"
              ELSE IF nvariant = "interface" THEN "displaytodo" ELSE "display"
    /\ UNCHANGED <<nvariant, title, content, todoText, todo, disk, bankVars, userVars, calcVars>>

\* todo.Display()
DisplayTodo ==
    /\ npc = "displaytodo"
    /\ nout' = <<"Todo:", todo.Text>>
    /\ npc' = "savetodo"
    /\ UNCHANGED <<nvariant, title, content, todoText, userNote, todo, noteErr, stamped, disk, bankVars, userVars, calcVars>>

\* err = saveData(todo), and the return on error
SaveTodo ==
    /\ npc = "savetodo"
    /\ \E w \in TodoSave(todo, disk) :
        /\ disk' = w.disk
        /\ noteErr' = w.err
        /\ nout' = IF w.err # "nil" THEN <<"Saving the note failed.">>
                   ELSE <<"Saving the note succeeded!">>
        /\ npc' = IF w.err # "nil" THEN "done" ELSE "display"
    /\ UNCHANGED <<nvariant, title, content, todoText, userNote, todo, stamped, bankVars, userVars, calcVars>>

\* userNote.Display()
Display ==
    /\ npc = "display"
    /\ nout' = <<"Your note titled", userNote.Title, "has the following content:", userNote.Content>>
    /\ npc' = "save"
    /\ UNCHANGED <<nvariant, title, content, todoText, userNote, todo, noteErr, stamped, disk, bankVars, userVars, calcVars>>

\* SaveNote with the error of Save left unchecked: success is always reported
SaveNoteUnchecked ==
    /\ npc = "save"
    /\ \E w \in Save(userNote, nvariant # "fixes", disk) :
        /\ disk' = w.disk
        /\ noteErr' = w.err
        /\ nout' = <<"Saving the note succeeded!">>
    /\ npc' = "done"
    /\ UNCHANGED <<nvariant, title, content, todoText, userNote, todo, stamped, bankVars, userVars, calcVars>>

\* err = userNote.Save() (through saveData in the todo program), and the message
SaveNote ==
    /\ npc = "save"
    /\ \E w \in Save(userNote, nvariant # "fixes", disk) :
        /\ disk' = w.disk
        /\ noteErr' = w.err
        /\ nout' = IF w.err # "nil" THEN <<"Saving the note failed.">>
                   ELSE <<"Saving the note succeeded!">>
    /\ npc' = "done"
    /\ UNCHANGED <<nvariant, title, content, todoText, userNote, todo, stamped, bankVars, userVars, calcVars>>

NoteNext ==
    \/ GetNoteData
    \/ \E now \in Clock : NewTodo(now)
    \/ \E now \in Clock : NewNote(now)
    \/ DisplayTodo
    \/ SaveTodo
    \/ Display
    \/ SaveNote

NoteStart == BankIdle /\ NoteInit /\ UserIdle /\ CalcIdle

NoteSpec == NoteStart /\ [][NoteNext]_vars

----------------------------------------------------------------------------
(* The user program (part_013; the package user of part_015 and part_011   *)
(* holds the same constructor under the name New).                         *)

\* what fmt.Scanln(&value) may leave in value: a word, "" for an empty line
UserData == {<<>>, <<"A">>, <<"b">>, <<"A", "b">>}

RequiredFields == "First name, last name and birthdate are required."

\* newUser accepting a user whose birthdate is missing
newUserWithoutBirthdate(firstName, lastName, birthdate, now) ==
    IF firstName = <<>> \/ lastName = <<>>
    THEN [user |-> NilUser, err |-> RequiredFields]
    ELSE [user |-> [nil |-> FALSE, firstName |-> firstName, lastName |-> lastName,
                    birthDate |-> birthdate, createdAt |-> now],
          err |-> "nil"]

\* newUser(firstName, lastName, birthdate), user.New: (*User, error)
newUser(firstName, lastName, birthdate, now) ==
    IF firstName = <<>> \/ lastName = <<>> \/ birthdate = <<>>
    THEN [user |-> NilUser, err |-> RequiredFields]
    ELSE [user |-> [nil |-> FALSE, firstName |-> firstName, lastName |-> lastName,
                    birthDate |-> birthdate, createdAt |-> now],
          err |-> "nil"]

UserInit ==
    /\ upc = "input"
    /\ userFirstName = <<>>
    /\ userLastName = <<>>
    /\ userBirthdate = <<>>
    /\ appUser = NilUser
    /\ userErr = "nil"
    /\ uout = <<>>

\* the three getUserData calls of main
GetUserData ==
    /\ upc = "input"
    /\ userFirstName' \in UserData
    /\ userLastName' \in UserData
    /\ userBirthdate' \in UserData
    /\ uout' = <<"Please enter your first name: ", "Please enter your last name: ",
                 "Please enter your birthdate (MM/DD/YYYY): ">>
    /\ upc' = "new"
    /\ UNCHANGED <<appUser, userErr, bankVars, noteVars, calcVars>>

\* appUser, err := newUser(...), and the early return on error
NewUser(now) ==
    /\ upc = "new"
    /\ appUser' = newUser(userFirstName, userLastName, userBirthdate, now).user
    /\ userErr' = newUser(userFirstName, userLastName, userBirthdate, now).err
    /\ uout' = IF newUser(userFirstName, userLastName, userBirthdate, now).err # "nil"
               THEN <<RequiredFields>> ELSE <<>>
    /\ upc' = IF newUser(userFirstName, userLastName, userBirthdate, now).err # "nil"
              THEN "done" ELSE "output"
    /\ UNCHANGED <<userFirstName, userLastName, userBirthdate, bankVars, noteVars, calcVars>>

\* appUser.outputUserDetails(), before and after clearUserName
OutputUserDetails ==
    /\ upc \in {"output", "output2"}
    /\ uout' = <<appUser.firstName, appUser.lastName, appUser.birthDate>>
    /\ upc' = IF upc = "output" THEN "clear" ELSE "done"
    /\ UNCHANGED <<userFirstName, userLastName, userBirthdate, appUser, userErr,
                   bankVars, noteVars, calcVars>>

\* appUser.clearUserName(): through the pointer, so main's user is changed
ClearUserName ==
    /\ upc = "clear"
    /\ appUser' = [appUser EXCEPT !.firstName = <<>>, !.lastName = <<>>]
    /\ uout' = <<>>
    /\ upc' = "output2"
    /\ UNCHANGED <<userFirstName, userLastName, userBirthdate, userErr,
                   bankVars, noteVars, calcVars>>

UserNext ==
    \/ GetUserData
    \/ \E now \in Clock : NewUser(now)
    \/ OutputUserDetails
    \/ ClearUserName

UserStart == BankIdle /\ NoteIdle /\ UserInit /\ CalcIdle

UserSpec == UserStart /\ [][UserNext]_vars

----------------------------------------------------------------------------
(* The profit calculator (25-section-exercise-solution).                   *)

\* what the user types at a prompt (a failed Scan leaves 0)
CalcInputs == {Fin(-3), Fin(0), F(10), F(40), NaN, PInf}

PositiveNumber == "Value must be a positive number."

\* getUserInput(infoText): (float64, error) for the value fmt.Scan read
calcGetUserInput(userInput) ==
    IF FLe(userInput, Fin(0)) THEN [val |-> Fin(0), err |-> PositiveNumber]
    ELSE [val |-> userInput, err |-> "nil"]

\* calculateFinancials: ebt is computed; profit and ratio are kept as the
\* terms ebt * (1 - taxRate/100) and ebt / profit
calculateFinancials(rev, exp, tax) ==
    [ebt |-> FSub(rev, exp),
     profit |-> [term |-> "ebt * (1 - taxRate/100)", ebt |-> FSub(rev, exp), taxRate |-> tax],
     ratio |-> [term |-> "ebt / profit", ebt |-> FSub(rev, exp), taxRate |-> tax]]

\* fmt.Sprintf("EBT: %.1f\nProfit: %.1f\nRatio: %.3f\n", ebt, profit, ratio)
ResultsText(f) == <<"EBT: ", f.ebt, "Profit: ", f.profit, "Ratio: ", f.ratio>>

\* storeResults: os.WriteFile("results.txt", ...) with the error dropped; the
\* file it may leave
storeResults(f, old) == {TextFile(ResultsText(f)), old, TextFile(<<>>)}

CalcInit ==
    /\ cpc = "revenue"
    /\ revenue = Fin(0)
    /\ expenses = Fin(0)
    /\ taxRate = Fin(0)
    /\ calcErr = "nil"
    /\ cout = <<>>
    /\ entered = <<>>
    /\ results = NoFile

\* revenue, err := getUserInput("Revenue: "), and the early return on error
ReadRevenue(userInput) ==
    /\ cpc = "revenue"
    /\ entered' = Append(entered, userInput)
    /\ revenue' = calcGetUserInput(userInput).val
    /\ calcErr' = calcGetUserInput(userInput).err
    /\ cout' = <<"Revenue: ">> \o (IF calcGetUserInput(userInput).err # "nil"
                                   THEN <<PositiveNumber>> ELSE <<>>)
    /\ cpc' = IF calcGetUserInput(userInput).err # "nil" THEN "done" ELSE "expenses"
    /\ UNCHANGED <<expenses, taxRate, results, bankVars, noteVars, userVars>>

\* expenses, err := getUserInput("Expenses: "), and the early return on error
ReadExpenses(userInput) ==
    /\ cpc = "expenses"
    /\ entered' = Append(entered, userInput)
    /\ expenses' = calcGetUserInput(userInput).val
    /\ calcErr' = calcGetUserInput(userInput).err
    /\ cout' = <<"Expenses: ">> \o (IF calcGetUserInput(userInput).err # "nil"
                                    THEN <<PositiveNumber>> ELSE <<>>)
    /\ cpc' = IF calcGetUserInput(userInput).err # "nil" THEN "done" ELSE "taxRate"
    /\ UNCHANGED <<revenue, taxRate, results, bankVars, noteVars, userVars>>

\* taxRate, err := getUserInput("Tax Rate: "), and the early return on error
ReadTaxRate(userInput) ==
    /\ cpc = "taxRate"
    /\ entered' = Append(entered, userInput)
    /\ taxRate' = calcGetUserInput(userInput).val
    /\ calcErr' = calcGetUserInput(userInput).err
    /\ cout' = <<"Tax Rate: ">> \o (IF calcGetUserInput(userInput).err # "nil"
                                    THEN <<PositiveNumber>> ELSE <<>>)
    /\ cpc' = IF calcGetUserInput(userInput).err # "nil" THEN "done" ELSE "report"
    /\ UNCHANGED <<revenue, expenses, results, bankVars, noteVars, userVars>>

\* calculateFinancials, the three Printf lines and storeResults
Report ==
    /\ cpc = "report"
    /\ cout' = <<calculateFinancials(revenue, expenses, taxRate).ebt,
                 calculateFinancials(revenue, expenses, taxRate).profit,
                 calculateFinancials(revenue, expenses, taxRate).ratio>>
    /\ results' \in storeResults(calculateFinancials(revenue, expenses, taxRate), results)
    /\ cpc' = "done"
    /\ UNCHANGED <<revenue, expenses, taxRate, calcErr, entered, bankVars, noteVars, userVars>>

CalcNext ==
    \/ \E userInput \in CalcInputs : ReadRevenue(userInput)
    \/ \E userInput \in CalcInputs : ReadExpenses(userInput)
    \/ \E userInput \in CalcInputs : ReadTaxRate(userInput)
    \/ Report

CalcStart == BankIdle /\ NoteIdle /\ UserIdle /\ CalcInit

CalcSpec == CalcStart /\ [][CalcNext]_vars

----------------------------------------------------------------------------
(* One run of any of the programs on a finite standard                     *)
(* input.  A process that is not blocked takes its next step: fmt.Scan and *)
(* ReadString return at the end of input, so no step waits for ever.       *)

LiveInit == Init \/ NoteStart \/ UserStart \/ CalcStart

LiveNext ==
    \/ BankStep
    \/ NoteNext
    \/ UserNext
    \/ CalcNext

LiveSpec == LiveInit /\ [][LiveNext]_vars /\ WF_vars(LiveNext)

----------------------------------------------------------------------------
(* Properties of the bank programs.                                        *)

\* the last request was a deposit or a withdrawal
Transacted == lastOp.op \in {"deposit", "withdraw"}
\* main is at the menu right after startup, before any request of this run
JustStarted == pc = "menu" /\ lastOp.op = "none"
\* balance.txt could not be read or parsed at startup
LoadFails(f) == ~f.exists \/ ~ParseFloat(f.text).ok

\* C1: in every reachable state of the bank programs the account balance is
\* never negative.
C1_BalanceNeverNegative == ~IsNegative(accountBalance)

\* C2: in the variants that write balance.txt, a deposit of an amount <= 0, or a
\* withdrawal of an amount <= 0 or of more than the balance, is refused with a
\* message and leaves the balance and balance.txt as they were.
C2_InvalidRequestMutatesNothing ==
    (/\ Writes(variant)
     /\ Transacted
     /\ \/ FLe(lastOp.amount, Fin(0))
        \/ lastOp.op = "withdraw" /\ FGt(lastOp.amount, lastOp.before))
    => /\ ~lastOp.accepted
       /\ accountBalance = lastOp.before
       /\ file = lastOp.fileBefore
       /\ out \in {<<InvalidAmount>>, <<InsufficientFunds>>}

\* a withdrawal of more than the balance was refused after an earlier accepted
\* transaction had written balance.txt
C2_Witness ==
    /\ variant = "third_party"
    /\ lastOp.op = "withdraw"
    /\ FGt(lastOp.amount, lastOp.before)
    /\ lastWrite = "ok"
    /\ out = <<InsufficientFunds>>

\* C3: after an accepted deposit or withdrawal the balance in memory is the new
\* value, and whenever the latest write of the run succeeded, balance.txt holds
\* that same value at every menu prompt.
C3_FileEqualsBalance ==
    /\ (Transacted /\ lastOp.accepted)
       => accountBalance = IF lastOp.op = "deposit"
                           THEN FAdd(lastOp.before, lastOp.amount)
                           ELSE FSub(lastOp.before, lastOp.amount)
    /\ (Writes(variant) /\ pc = "menu" /\ lastWrite = "ok")
       => /\ file = TextFile(Sprint(accountBalance))
          /\ ParseFloat(file.text) = [val |-> accountBalance, ok |-> TRUE]

\* part_008 is back at the menu, one request after a withdrawal that was written
C3_Witness ==
    /\ variant = "part_008"
    /\ pc = "menu"
    /\ lastWrite = "ok"
    /\ lastOp.op = "check"
    /\ accountBalance = Fin(2501 - 501)
    /\ file.text = <<"1", "0", "0", "0">>

\* C4: a withdrawal is accepted exactly when 0 < amount <= balance; an accepted
\* withdrawal leaves the old balance minus the amount, which is not negative,
\* and withdrawing the whole balance leaves exactly 0.
C4_WithdrawAcceptedIffCovered ==
    (variant \in {"part_007", "part_008"} /\ lastOp.op = "withdraw")
    => /\ lastOp.accepted <=> (FGt(lastOp.amount, Fin(0)) /\ FLe(lastOp.amount, lastOp.before))
       /\ lastOp.accepted
          => /\ accountBalance = FSub(lastOp.before, lastOp.amount)
             /\ ~IsNegative(accountBalance)
             /\ (lastOp.amount = lastOp.before => accountBalance = Fin(0))

\* C5: in every bank program that offers the operation, a deposit or withdrawal
\* of an amount <= 0 leaves the balance unchanged.
C5_NonPositiveAmountChangesNothing ==
    (Transacted /\ FLe(lastOp.amount, Fin(0))) => accountBalance = lastOp.before

\* C6: what Sprint writes, ParseFloat reads back as the same value; so when the
\* previous run of a file-loading variant ended on a successfully written
\* transaction, the next run starts with the balance that run ended with, and
\* with no load error.
C6_RoundTrip ==
    /\ ParseFloat(Sprint(accountBalance)) = [val |-> accountBalance, ok |-> TRUE]
    /\ (Loads(variant) /\ JustStarted /\ prevEnd.fresh)
       => /\ accountBalance = prevEnd.balance
          /\ loadErr = "nil"
          /\ out[1] = Welcome

\* a second run of part_003 has loaded a balance of at least 1e+06 with a
\* fraction, the one the first run ended with
C6_Witness ==
    /\ variant = "part_003"
    /\ run = 2
    /\ JustStarted
    /\ prevEnd.fresh
    /\ accountBalance.k = "fin"
    /\ accountBalance.v >= 2 * Pow10(6)
    /\ accountBalance.v % 2 = 1

\* C7: when balance.txt is missing or does not parse, the program reaches the
\* menu with the default balance: 1000 and a printed error in the variants that
\* return the error, 0 and no message in the variant that ignores it.
C7_LoadFailureGivesDefault ==
    (Loads(variant) /\ JustStarted /\ LoadFails(file))
    => IF variant = "part_003"
       THEN accountBalance = Fin(0) /\ out = <<Welcome>>
       ELSE accountBalance = F(1000) /\ out[1] = "ERROR" /\ out[2] = loadErr /\ loadErr # "nil"

\* the last step printed "Goodbye!" and then "Thanks for choosing our bank"
Thanked == Len(out) = 2 /\ out[1] = "Goodbye!"
\* the last request was a deposit or withdrawal that was refused
Refused(op) == lastOp.op = op /\ ~lastOp.accepted

C18_EndsOnlyThroughDefault ==
    /\ [](SwitchLoops(variant)
          => /\ lastOp.op \in {"check", "deposit", "withdraw"} => pc = "menu"
             /\ lastOp.op = "exit" => pc = "done" /\ Thanked
             /\ pc = "done" => lastOp.op = "exit")
    /\ [][(SwitchLoops(variant) /\ pc = "done")
          => /\ pc' = "start"
             /\ run' = run + 1
             /\ file' = file
             /\ txns' = txns]_vars

\* 04-third-party-packages has ended through default after a transaction that
\* was written to balance.txt
C18_Witness ==
    /\ variant = "third_party"
    /\ pc = "done"
    /\ lastOp.op = "exit"
    /\ lastWrite = "ok"
    /\ out = <<"Goodbye!", "Thanks for choosing our bank">>

\* C19: in part_006 the choice Exit prints "Goodbye!" and the menu is shown
\* again; the program ends exactly when the counter has reached 200 or an
\* amount was refused; from one menu round to the next the counter grows by one
\* and the balance is kept, or changed by the accepted transaction only.
C19_CountedLoop ==
    /\ []((variant = "part_006" /\ pc \in {"menu", "done"})
          => /\ iteration <= MaxIterations
             /\ lastOp.op = "exit" => out = <<"Goodbye!">>
             /\ pc = "done" <=> \/ iteration = MaxIterations
                                \/ Refused("deposit") \/ Refused("withdraw"))
    /\ [][(variant = "part_006" /\ pc = "menu" /\ pc' \in {"menu", "done"})
          => /\ pc' = "done" => iteration' = MaxIterations \/ iteration' = iteration
             /\ pc' = "menu" => iteration' = iteration + 1
             /\ \/ accountBalance' = accountBalance
                \/ /\ lastOp'.accepted
                   /\ lastOp'.before = accountBalance
                   /\ accountBalance' \in {FAdd(accountBalance, lastOp'.amount),
                                           FSub(accountBalance, lastOp'.amount)}]_vars

\* part_006 has run its 200 rounds: a deposit, then Exit chosen until the end
C19_Witness ==
    /\ variant = "part_006"
    /\ pc = "done"
    /\ iteration = MaxIterations
    /\ lastOp.op = "exit"
    /\ accountBalance = Fin(2501)
    /\ out = <<"Goodbye!">>

\* C20: every run of 22-writing-to-files starts with the balance 1000,
\* whatever balance.txt holds; the file is never read, so what an earlier run
\* left does not reach the balance of a later run.
C20_WriteOnlyStartsAt1000 ==
    /\ []((variant = "writing_to_files" /\ JustStarted)
          => accountBalance = F(1000) /\ loadErr = "nil" /\ out = <<Welcome>>)
    /\ [][(variant = "writing_to_files" /\ pc = "menu")
          => /\ accountBalance' =
                   IF ~lastOp'.accepted THEN accountBalance
                   ELSE IF lastOp'.op = "deposit" THEN FAdd(accountBalance, lastOp'.amount)
                   ELSE FSub(accountBalance, lastOp'.amount)
             /\ file' # file
                => \E n \in 0..Len(Sprint(accountBalance')) :
                      file' = TextFile(SubSeq(Sprint(accountBalance'), 1, n))]_vars

\* a second run of 22-writing-to-files is at its first menu; the first run left
\* another balance in balance.txt
C20_Witness ==
    /\ variant = "writing_to_files"
    /\ run = 2
    /\ JustStarted
    /\ prevEnd.fresh
    /\ prevEnd.balance = Fin(2501)
    /\ file = TextFile(<<"1", "2", "5", "0", ".", "5">>)
    /\ accountBalance = F(1000)

\* the write of balance.txt that followed the last accepted transaction failed
WriteFailed == Writes(variant) /\ Transacted /\ lastOp.accepted /\ lastWrite = "failed"
\* what the program does about the failed write: the new balance stays in
\* memory, only the "Balance updated!" line is printed, main is at the menu
WriteErrorIgnored ==
    /\ accountBalance = IF lastOp.op = "deposit"
                        THEN FAdd(lastOp.before, lastOp.amount)
                        ELSE FSub(lastOp.before, lastOp.amount)
    /\ out = <<BalanceUpdated, Sprint(accountBalance)>>
    /\ pc = "menu"

\* C21 as the specification words it: when writing balance.txt fails during an
\* accepted deposit or withdrawal the error is ignored (new balance in memory,
\* "Balance updated!" printed, nothing else reported, back at the menu) and
\* balance.txt keeps its previous content.
C21_FailedWriteKeepsFile ==
    WriteFailed => WriteErrorIgnored /\ file = lastOp.fileBefore

\* C21: when writing balance.txt fails during an accepted deposit or
\* withdrawal the error is ignored (new balance in memory, "Balance updated!"
\* printed, nothing else reported, back at the menu); balance.txt then holds
\* either its previous content or, truncated by the write, a leading part of
\* the text of the new balance.
C21_FailedWriteIgnored ==
    WriteFailed
    => /\ WriteErrorIgnored
       /\ \/ file = lastOp.fileBefore
          \/ \E n \in 0..Len(Sprint(accountBalance)) :
                file = TextFile(SubSeq(Sprint(accountBalance), 1, n))

\* part_008 is back at the menu after a deposit whose write failed part-way:
\* balance.txt held 1250.5 and now holds the cut-off text of the new balance
C21_Witness ==
    /\ variant = "part_008"
    /\ WriteFailed
    /\ lastOp.op = "deposit"
    /\ lastOp.fileBefore = TextFile(<<"1", "2", "5", "0", ".", "5">>)
    /\ accountBalance = Fin(2501 + 501)
    /\ file = TextFile(<<"1", "5", "0">>)
    /\ pc = "menu"

----------------------------------------------------------------------------
(* Properties of the note programs.                                        *)

\* note.New has been called and has returned
NewReturned ==
    /\ npc \notin {"off", "input", "newtodo", "new"}
    /\ nvariant = "interface" => todo.Text # <<>>
\* todo.New has been called and has returned
TodoNewReturned == nvariant = "interface" /\ npc \notin {"off", "input", "newtodo"}

\* C8: note.New returns an error and the zero Note exactly when title or content
\* is empty, and otherwise no error and a Note with that title and content;
\* todo.New does the same for its text.
C8_NewValidates ==
    /\ NewReturned
       => IF title = <<>> \/ content = <<>>
          THEN npc = "done" /\ noteErr = InvalidInput /\ userNote = ZeroNote /\ stamped = 0
          ELSE /\ userNote.Title = title
               /\ userNote.Content = content
               /\ stamped # 0
               /\ npc \in {"display", "displaytodo"} => noteErr = "nil"
    /\ TodoNewReturned
       => IF todoText = <<>>
          THEN npc = "done" /\ noteErr = InvalidInput /\ todo = ZeroTodo
          ELSE todo.Text = todoText /\ (npc = "new" => noteErr = "nil")

\* New refused a note whose title was given and whose content was empty
C8_Witness ==
    /\ nvariant = "struct_tags"
    /\ npc = "done"
    /\ title # <<>>
    /\ content = <<>>
    /\ noteErr = InvalidInput
    /\ userNote = ZeroNote

\* C9: from the return of note.New on, the note has the non-empty title and
\* content it was created with and the creation time New read from the clock;
\* Display and Save change none of its fields.
C9_NoteImmutable ==
    stamped # 0
    => /\ userNote = [Title |-> title, Content |-> content, CreatedAt |-> stamped]
       /\ userNote.Title # <<>>
       /\ userNote.Content # <<>>
       /\ userNote.CreatedAt \in Clock

\* the program has ended after a failed Save that truncated the note's file
C9_Witness ==
    /\ nvariant = "fixes"
    /\ npc = "done"
    /\ stamped # 0
    /\ noteErr = WriteError
    /\ nout = <<"Saving the note failed.">>
    /\ DOMAIN disk # {}

\* name is t with every space replaced by "_" and every letter lower-cased,
\* followed by ".json"
IsNameOf(name, t) ==
    /\ Len(name) = Len(t) + Len(DotJson)
    /\ \A i \in 1..Len(t) : name[i] = IF t[i] = " " THEN "_" ELSE ToLowerChar(t[i])
    /\ SubSeq(name, Len(t) + 1, Len(name)) = DotJson

\* name is t with every space replaced by "_", every upper-case letter replaced
\* by its lower-case letter and every other character kept, followed by ".json"
IsVerbatimNameOf(name, t) ==
    /\ Len(name) = Len(t) + Len(DotJson)
    /\ \A i \in 1..Len(t) :
          name[i] = IF t[i] = " " THEN "_"
                    ELSE IF \E k \in 1..Len(Upper) : Upper[k] = t[i]
                    THEN Lower[CHOOSE k \in 1..Len(Upper) : Upper[k] = t[i]]
                    ELSE t[i]
    /\ SubSeq(name, Len(t) + 1, Len(name)) = DotJson

\* C10 as the specification words it: the name of every file a note program
\* writes is the title (or the todo's text) with spaces replaced by underscores
\* and letters lower-cased, nothing else changed, followed by ".json".
C10_SaveFileNameVerbatim ==
    \A name \in DOMAIN disk :
        \/ IsVerbatimNameOf(name, userNote.Title) /\ stamped # 0
        \/ nvariant = "interface" /\ IsVerbatimNameOf(name, todo.Text)

\* C10: Save writes the note to the file named after the lower-cased title with
\* underscores for spaces and ".json" appended, and to no other file.
C10_SaveFileName ==
    /\ \A name \in DOMAIN disk :
          \/ IsNameOf(name, userNote.Title) /\ stamped # 0
          \/ nvariant = "interface" /\ IsNameOf(name, todo.Text)
    /\ (npc = "done" /\ stamped # 0 /\ noteErr = "nil")
       => \E name \in DOMAIN disk :
             /\ IsNameOf(name, title)
             /\ disk[name] = NoteJSON(userNote, nvariant # "fixes")

\* the note titled "A " was saved as a_.json
C10_Witness ==
    /\ nvariant = "struct_tags"
    /\ npc = "done"
    /\ noteErr = "nil"
    /\ title = <<"A", " ">>
    /\ DOMAIN disk = {<<"a", "_", ".", "j", "s", "o", "n">>}

\* C12: a note saved by the struct-tag variant is a JSON object with the keys
\* title, content and created_at, and Load of that file returns no error and a
\* Note with the same title, content and creation time.
C12_JSONRoundTrip ==
    (nvariant = "struct_tags" /\ npc = "done" /\ stamped # 0 /\ noteErr = "nil")
    => /\ FileName(title) \in DOMAIN disk
       /\ Keys(disk[FileName(title)]) = <<"title", "content", "created_at">>
       /\ Load(disk, FileName(title)) = [note |-> userNote, err |-> "nil"]

\* the note + todo program has ended after both saves succeeded
BothSaved == nvariant = "interface" /\ npc = "done" /\ stamped # 0 /\ noteErr = "nil"

\* C15: after a run of the note + todo program in which both saves succeed,
\* the todo's JSON and the note's JSON are both on disk, in two different files.
C15_SeparateFiles ==
    BothSaved
    => \E todoFile \in DOMAIN disk, noteFile \in DOMAIN disk :
          /\ todoFile # noteFile
          /\ disk[todoFile] = TodoJSON(todo)
          /\ disk[noteFile] = NoteJSON(userNote, TRUE)

\* the name contains no path separator
IsPlainName(name) == \A k \in 1..Len(name) : name[k] # "/"

\* C16: every file a note program writes has a name without a path separator,
\* so that it is a single file in the current directory.
C16_SafeFileName == \A name \in DOMAIN disk : IsPlainName(name)

\* the program with the note alone (16-fixes, 17-struct-tags)
NoteProgram == nvariant \in {"fixes", "struct_tags"}
\* what userNote.Display() prints
Displayed == <<"Your note titled", userNote.Title, "has the following content:", userNote.Content>>

\* C22: in the note program a valid note is displayed before Save is
\* attempted; the step after it prints "Saving the note succeeded!" when Save
\* returned no error and "Saving the note failed." when it returned one, never
\* both, and ends the program; for an invalid note the validation error alone
\* is printed and the program ends with nothing displayed and no file written.
C22_DisplayThenSaveMessage ==
    /\ [](NoteProgram
          => /\ npc = "display" => noteErr = "nil" /\ userNote = New(title, content, stamped).note
             /\ npc = "save" => nout = Displayed /\ noteErr = "nil" /\ disk = <<>>
             /\ (npc = "done" /\ (title = <<>> \/ content = <<>>))
                => nout = <<InvalidInput>> /\ disk = <<>>)
    /\ [][(NoteProgram /\ npc = "new")
          => IF title = <<>> \/ content = <<>>
             THEN npc' = "done" /\ nout' = <<InvalidInput>> /\ disk' = disk
             ELSE npc' = "display" /\ nout' = <<>>]_vars
    /\ [][(NoteProgram /\ npc = "display") => npc' = "save" /\ disk' = disk]_vars
    /\ [][(NoteProgram /\ npc = "save")
          => /\ npc' = "done"
             /\ \/ noteErr' = "nil" /\ nout' = <<"Saving the note succeeded!">>
                \/ noteErr' # "nil" /\ nout' = <<"Saving the note failed.">>]_vars

\* 16-fixes has ended after displaying a valid note whose Save returned an error
C22_Witness ==
    /\ nvariant = "fixes"
    /\ npc = "done"
    /\ userNote.Title = <<"A">>
    /\ noteErr = WriteError
    /\ nout = <<"Saving the note failed.">>

\* the note + todo program (06-interfaces)
TodoProgram == nvariant = "interface"
\* main is past both constructors, at a Display or a Save
Presenting == npc \in {"displaytodo", "savetodo", "display", "save"}
\* todo.New or note.New is given an empty text
SomeInvalid == todoText = <<>> \/ title = <<>> \/ content = <<>>

\* C23: in the note + todo program the todo and the note are both validated
\* before anything is displayed or saved: main reaches a Display or a Save only
\* with a valid todo and a valid note, the two constructor steps print nothing
\* but a validation error and write nothing, and when todo.New or note.New
\* returns an error the program ends with that error printed and no file
\* written, even when the other item was valid.
C23_BothValidatedFirst ==
    /\ [](TodoProgram
          => /\ Presenting
                => /\ ~SomeInvalid
                   /\ todo.Text = todoText /\ todo.CreatedAt # 0
                   /\ userNote = New(title, content, stamped).note /\ stamped # 0
             /\ npc \in {"input", "newtodo", "new", "displaytodo"} => disk = <<>>
             /\ (npc = "done" /\ SomeInvalid)
                => disk = <<>> /\ nout = <<InvalidInput>> /\ noteErr = InvalidInput)
    /\ [][(TodoProgram /\ npc = "newtodo")
          => IF todoText = <<>>
             THEN npc' = "done" /\ nout' = <<InvalidInput>>
             ELSE npc' = "new" /\ nout' = <<>>]_vars
    /\ [][(TodoProgram /\ npc = "new")
          => IF title = <<>> \/ content = <<>>
             THEN npc' = "done" /\ nout' = <<InvalidInput>>
             ELSE npc' = "displaytodo" /\ nout' = <<>>]_vars

\* the note + todo program has ended on the error of note.New, for an empty
\* title, after todo.New had accepted the todo; nothing is on disk
C23_Witness ==
    /\ TodoProgram
    /\ npc = "done"
    /\ todo.Text = <<"A">>
    /\ title = <<>>
    /\ content # <<>>
    /\ noteErr = InvalidInput
    /\ nout = <<InvalidInput>>
    /\ disk = <<>>

----------------------------------------------------------------------------
(* Properties of the user program.                                         *)

\* newUser has been called and has returned
NewUserReturned == upc \notin {"off", "input", "new"}

\* C13: newUser / user.New returns the nil pointer and an error exactly when one
\* of the three arguments is empty, and otherwise a User holding the three
\* values and no error.
C13_UserNewValidates ==
    NewUserReturned
    => IF userFirstName = <<>> \/ userLastName = <<>> \/ userBirthdate = <<>>
       THEN upc = "done" /\ appUser = NilUser /\ userErr = RequiredFields
       ELSE /\ userErr = "nil"
            /\ ~appUser.nil
            /\ appUser.birthDate = userBirthdate
            /\ appUser.createdAt \in Clock
            /\ upc = "output" => /\ appUser.firstName = userFirstName
                                 /\ appUser.lastName = userLastName

\* newUser refused a user whose birthdate alone was missing
C13_Witness ==
    /\ upc = "done"
    /\ userFirstName # <<>>
    /\ userLastName # <<>>
    /\ userBirthdate = <<>>
    /\ appUser = NilUser
    /\ userErr = RequiredFields

----------------------------------------------------------------------------
(* Properties of the profit calculator.                                    *)

\* the input is greater than 0
IsPositive(x) == FGt(x, Fin(0))

\* C14: the calculator goes on after an input only if the input is greater
\* than 0; at the first input that is not, it prints the error and ends with
\* no further prompt, no results printed and results.txt not written; the
\* results are printed and results.txt is written only after three inputs
\* greater than 0.
C14_OnlyPositiveAccepted ==
    /\ \A k \in 1..Len(entered) :
          IF IsPositive(entered[k])
          THEN k = Len(entered) => cpc # "done" \/ Len(entered) = 3
          ELSE /\ k = Len(entered)
               /\ cpc = "done"
               /\ calcErr = PositiveNumber
               /\ cout[Len(cout)] = PositiveNumber
               /\ results = NoFile
    /\ results # NoFile
       => /\ Len(entered) = 3
          /\ \A k \in 1..3 : IsPositive(entered[k])

----------------------------------------------------------------------------
(* Termination.                                                            *)

\* the program that was started has reached the end of main
Ended ==
    /\ pc \in {"off", "done"}
    /\ npc \in {"off", "done"}
    /\ upc \in {"off", "done"}
    /\ cpc \in {"off", "done"}

\* C11: on every finite standard input each program ends: a bank program that
\* has started reaches the end of main, and so do a note program, the user
\* program and the profit calculator.
C11_Terminates == <>Ended

\* a menu-loop program has ended through the choice 0 that the failed read at
\* the end of input left, after a deposit was refused for the same reason
C11_Witness ==
    /\ variant = "part_007"
    /\ pc = "done"
    /\ stdin = 0
    /\ lastOp.op = "exit"
    /\ lastOp.before = F(1000)
    /\ out = <<"Goodbye!", "Thanks for choosing our bank">>

====
